---- MODULE Spec2Model ----
(***************************************************************************)
(* N-dimensional Minesweeper engine: the coordinate mapper                 *)
(* (src/src/coordinates.rs), the Board (src/src/board.rs), the Cell        *)
(* (src/src/cell.rs) and the Game state machine (src/src/game.rs).         *)
(*                                                                         *)
(* Rust vectors are 0-based; a TLA+ sequence holding a Rust vector v keeps *)
(* v[k] at position k + 1.  Linear indices and coordinate values keep      *)
(* their Rust (0-based) values.                                            *)
(***************************************************************************)
EXTENDS Integers, Sequences, FiniteSets, TLC

VARIABLES
    dimensions,   \* Board.dimensions : Vec<usize>
    cells,        \* Board.cells      : Vec<Cell>
    num_mines,    \* Board.num_mines  : usize
    state,        \* Game.state       : GameState
    call          \* the call that produced this state, with its arguments and outcome

vars == <<dimensions, cells, num_mines, state, call>>

-----------------------------------------------------------------------------
(* Bounds of the model.                                                    *)

\* Game specification: boards of at most MaxDim axes, each extent at most
\* MaxExtent, at most MaxCells cells, at most MaxMines requested mines.
MaxDim == 2
MaxExtent == 3
MaxCells == 4
MaxMines == 2

\* Pure-function specification: every shape of at most FnMaxDim axes with
\* extents at most FnMaxExtent and at most FnMaxCells cells.
FnMaxDim == 3
FnMaxExtent == 3
FnMaxCells == 27

-----------------------------------------------------------------------------
(* Integer widths.                                                         *)

\* mine_count and adjacent_mines are u8 values: 0 .. U8 - 1.
U8 == 256

Min(a, b) == IF a < b THEN a ELSE b

\* 3_u32.pow(n): the exact power for n <= 20, the dimensionalities below
\* which the u32 product does not overflow.
RECURSIVE pow3_u32(_)
pow3_u32(n) == IF n = 0 THEN 1 ELSE 3 * pow3_u32(n - 1)

\* dimensions.iter().product()
RECURSIVE product(_)
product(dims) ==
    IF dims = <<>> THEN 1 ELSE Head(dims) * product(Tail(dims))

-----------------------------------------------------------------------------
(* cell.rs                                                                 *)

Mine == [tag |-> "Mine"]
Empty(n) == [tag |-> "Empty", adjacent_mines |-> n]

\* Cell::new(): a hidden, empty cell.
Cell_new == [state |-> "Hidden", kind |-> Empty(0)]

-----------------------------------------------------------------------------
(* coordinates.rs                                                          *)

\* The loop of to_index with the stride taken from the extent of the axis
\* itself, dimensions[i], instead of the axis before it.
RECURSIVE to_index_loop_own_extent(_, _, _, _, _)
to_index_loop_own_extent(coords, dims, i, index, stride) ==
    IF i > Len(coords) THEN index
    ELSE LET s == IF i > 1 THEN stride * dims[i] ELSE stride
         IN  to_index_loop_own_extent(coords, dims, i + 1,
                                      index + coords[i] * s, s)

\* The loop of to_index: position i (1-based) of coords, running index and stride.
RECURSIVE to_index_loop(_, _, _, _, _)
to_index_loop(coords, dims, i, index, stride) ==
    IF i > Len(coords) THEN index
    ELSE LET s == IF i > 1 THEN stride * dims[i - 1] ELSE stride
         IN  to_index_loop(coords, dims, i + 1, index + coords[i] * s, s)

to_index(coords, dims) == to_index_loop(coords, dims, 1, 0, 1)

\* First loop of to_coords: the stride of the last axis.
RECURSIVE to_coords_stride(_, _, _)
to_coords_stride(dims, i, stride) ==
    IF i > Len(dims) THEN stride
    ELSE to_coords_stride(dims, i + 1,
                          IF i > 1 THEN stride * dims[i - 1] ELSE stride)

\* Second loop of to_coords: axes from the last to the first.
RECURSIVE to_coords_loop(_, _, _, _, _)
to_coords_loop(dims, i, index, stride, coords) ==
    IF i < 1 THEN coords
    ELSE to_coords_loop(dims, i - 1, index % stride,
                        IF i > 1 THEN stride \div dims[i - 1] ELSE stride,
                        [coords EXCEPT ![i] = index \div stride])

to_coords(index, dims) ==
    to_coords_loop(dims, Len(dims), index, to_coords_stride(dims, 1, 1),
                   [k \in 1..Len(dims) |-> 0])

\* Inner loop of get_neighbors with the upper bound tested by `>` instead
\* of `>=`.
RECURSIVE neighbor_offsets_past_end(_, _, _, _)
neighbor_offsets_past_end(temp_coords, dims, j, n) ==
    IF j > Len(temp_coords) THEN [skip |-> FALSE, coords |-> temp_coords]
    ELSE LET offset == (n % 3) - 1
         IN  IF offset = -1 /\ temp_coords[j] = 0
             THEN [skip |-> TRUE, coords |-> temp_coords]
             ELSE LET new_coord == temp_coords[j] + offset
                  IN  IF new_coord > dims[j]
                      THEN [skip |-> TRUE, coords |-> temp_coords]
                      ELSE neighbor_offsets_past_end(
                               [temp_coords EXCEPT ![j] = new_coord],
                               dims, j + 1, n \div 3)

\* Inner loop of get_neighbors over the axes j, for one candidate number n:
\* skip = TRUE stands for `continue 'outer`.
RECURSIVE neighbor_offsets(_, _, _, _)
neighbor_offsets(temp_coords, dims, j, n) ==
    IF j > Len(temp_coords) THEN [skip |-> FALSE, coords |-> temp_coords]
    ELSE LET offset == (n % 3) - 1
         IN  IF offset = -1 /\ temp_coords[j] = 0
             THEN [skip |-> TRUE, coords |-> temp_coords]
             ELSE LET new_coord == temp_coords[j] + offset
                  IN  IF new_coord >= dims[j]
                      THEN [skip |-> TRUE, coords |-> temp_coords]
                      ELSE neighbor_offsets(
                               [temp_coords EXCEPT ![j] = new_coord],
                               dims, j + 1, n \div 3)

\* Outer loop of get_neighbors: what the candidates lo .. hi - 1 push, in
\* increasing order (the range is halved to keep the evaluation shallow; the
\* iterations do not read what earlier ones pushed).
RECURSIVE neighbors_loop(_, _, _, _, _)
neighbors_loop(coords, dims, lo, hi, center_index) ==
    IF lo >= hi THEN <<>>
    ELSE IF hi = lo + 1
    THEN IF lo = center_index THEN <<>>
         ELSE LET r == neighbor_offsets(coords, dims, 1, lo)
              IN  IF r.skip THEN <<>> ELSE <<r.coords>>
    ELSE LET mid == (lo + hi) \div 2
         IN  neighbors_loop(coords, dims, lo, mid, center_index)
             \o neighbors_loop(coords, dims, mid, hi, center_index)

get_neighbors(coords, dims) ==
    IF Len(coords) = 0 THEN <<>>
    ELSE LET num_neighbors_to_check == pow3_u32(Len(coords))
             center_index == (num_neighbors_to_check - 1) \div 2
         IN  neighbors_loop(coords, dims, 0, num_neighbors_to_check,
                            center_index)

-----------------------------------------------------------------------------
(* board.rs                                                                *)

\* The largest extent of a shape.
Widest(dims) ==
    IF Len(dims) = 0 THEN 0
    ELSE CHOOSE m \in {dims[j] : j \in 1..Len(dims)} :
             \A j \in 1..Len(dims) : dims[j] <= m

\* The valid coordinates of a shape (spec.md, Data model: one value per axis,
\* each strictly less than the extent of the axis).
Coords(dims) ==
    {c \in [1..Len(dims) -> 0..(Widest(dims) - 1)] :
        \A j \in 1..Len(dims) : c[j] < dims[j]}

\* A caller error that neither to_index nor the Board checks: a coordinate
\* whose first axis is one past the end, the other axes in range.
InvalidCoords(dims) ==
    IF Len(dims) = 0 THEN {}
    ELSE {c \in [1..Len(dims) -> 0..Widest(dims)] :
             /\ c[1] = dims[1]
             /\ \A j \in 2..Len(dims) : c[j] < dims[j]}

\* mine_indices.choose_multiple(&mut rng, num_mines): any num_mines distinct
\* indices, or all of them when there are fewer than num_mines.
choose_multiple(len, amount) ==
    {S \in SUBSET (0..(len - 1)) : Cardinality(S) = Min(amount, len)}

\* Board::place_mines writing one cell too far: index + 1 instead of index
\* (a mine chosen for the last cell is lost).
place_mines_shifted(cs, chosen_indices) ==
    [k \in 1..Len(cs) |->
        IF (k - 2) \in chosen_indices THEN [cs[k] EXCEPT !.kind = Mine]
        ELSE cs[k]]

\* Board::place_mines, for one outcome chosen_indices of the random choice.
place_mines(cs, chosen_indices) ==
    [k \in 1..Len(cs) |->
        IF (k - 1) \in chosen_indices THEN [cs[k] EXCEPT !.kind = Mine]
        ELSE cs[k]]

\* The loop over the neighbors of one cell: how often `mine_count += 1`
\* runs for the neighbors lo .. hi (1-based positions; the range is halved to
\* keep the evaluation shallow).
RECURSIVE count_mines(_, _, _, _, _)
count_mines(cs, dims, neighbors, lo, hi) ==
    IF lo > hi THEN 0
    ELSE IF lo = hi
    THEN LET neighbor_index == to_index(neighbors[lo], dims)
         IN  IF cs[neighbor_index + 1].kind = Mine THEN 1 ELSE 0
    ELSE LET mid == (lo + hi) \div 2
         IN  count_mines(cs, dims, neighbors, lo, mid)
             + count_mines(cs, dims, neighbors, mid + 1, hi)

\* mine_count is a u8 (the type of adjacent_mines): the 256th increment
\* panics when overflow checks are on (panic = TRUE) and wraps to 0 when
\* they are off.
u8_count(increments, overflow_checks) ==
    IF increments < U8 THEN [value |-> increments, panic |-> FALSE]
    ELSE IF overflow_checks THEN [value |-> 0, panic |-> TRUE]
    ELSE [value |-> increments % U8, panic |-> FALSE]

\* One iteration of the loop of calculate_adjacent_mines, for cell i (0-based).
calculate_cell(cs, dims, i, overflow_checks) ==
    IF cs[i + 1].kind = Mine THEN [cell |-> cs[i + 1], panic |-> FALSE]
    ELSE LET coords == to_coords(i, dims)
             neighbors == get_neighbors(coords, dims)
             mine_count == u8_count(
                 count_mines(cs, dims, neighbors, 1, Len(neighbors)),
                 overflow_checks)
         IN  [cell |-> [cs[i + 1] EXCEPT !.kind = Empty(mine_count.value)],
              panic |-> mine_count.panic]

\* Board::calculate_adjacent_mines.  An iteration rewrites the payload of an
\* Empty cell and reads only which cells are mines, so every iteration sees
\* the mines of the board the loop started on; a panic ends the loop at the
\* first cell whose count overflows, the cells before it already rewritten.
calculate_loop(cs, dims, overflow_checks) ==
    LET each == [k \in 1..Len(cs) |->
                    calculate_cell(cs, dims, k - 1, overflow_checks)]
        stops == {k \in 1..Len(cs) : each[k].panic}
    IN  [cells |-> [k \in 1..Len(cs) |->
                       IF \E p \in stops : p <= k THEN cs[k]
                       ELSE each[k].cell],
         panic |-> stops # {}]

calculate_adjacent_mines(cs, dims, overflow_checks) ==
    calculate_loop(cs, dims, overflow_checks)

\* Board::new, for one outcome of the random choice of place_mines.
Board_new(dims, n, chosen_indices, overflow_checks) ==
    LET total_cells == product(dims)
        blank == [k \in 1..total_cells |-> Cell_new]
        mined == place_mines(blank, chosen_indices)
        r == calculate_adjacent_mines(mined, dims, overflow_checks)
    IN  [dimensions |-> dims, cells |-> r.cells, num_mines |-> n,
         panic |-> r.panic]

\* Board::toggle_flag with the Revealed arm flagging the cell.
Board_toggle_flag_revealed(cs, dims, coords) ==
    LET index == to_index(coords, dims)
    IN  IF index < Len(cs)
        THEN CASE cs[index + 1].state = "Hidden" ->
                      [cs EXCEPT ![index + 1].state = "Flagged"]
               [] cs[index + 1].state = "Flagged" ->
                      [cs EXCEPT ![index + 1].state = "Hidden"]
               [] cs[index + 1].state = "Revealed" ->
                      [cs EXCEPT ![index + 1].state = "Flagged"]
        ELSE cs

\* Board::toggle_flag with the Revealed arm hiding the cell again.
Board_toggle_flag_hides(cs, dims, coords) ==
    LET index == to_index(coords, dims)
    IN  IF index < Len(cs)
        THEN CASE cs[index + 1].state = "Hidden" ->
                      [cs EXCEPT ![index + 1].state = "Flagged"]
               [] cs[index + 1].state = "Flagged" ->
                      [cs EXCEPT ![index + 1].state = "Hidden"]
               [] cs[index + 1].state = "Revealed" ->
                      [cs EXCEPT ![index + 1].state = "Hidden"]
        ELSE cs

\* Board::toggle_flag: cells.get_mut(index) is None for an index past the end.
Board_toggle_flag(cs, dims, coords) ==
    LET index == to_index(coords, dims)
    IN  IF index < Len(cs)
        THEN CASE cs[index + 1].state = "Hidden" ->
                      [cs EXCEPT ![index + 1].state = "Flagged"]
               [] cs[index + 1].state = "Flagged" ->
                      [cs EXCEPT ![index + 1].state = "Hidden"]
               [] cs[index + 1].state = "Revealed" -> cs
        ELSE cs

\* Board::reveal: cells[index] panics for an index past the end; the return
\* values of the recursive calls are dropped.
RECURSIVE Board_reveal(_, _, _)
RECURSIVE reveal_neighbors(_, _, _, _)

\* Board::reveal with the Flagged half of its first test left out.
Board_reveal_ignoring_flags(cs, dims, coords) ==
    LET index == to_index(coords, dims)
    IN  IF index >= Len(cs) THEN [cells |-> cs, hit |-> FALSE, panic |-> TRUE]
        ELSE IF cs[index + 1].state = "Revealed"
        THEN [cells |-> cs, hit |-> FALSE, panic |-> FALSE]
        ELSE LET c1 == [cs EXCEPT ![index + 1].state = "Revealed"]
             IN  IF c1[index + 1].kind = Mine
                 THEN [cells |-> c1, hit |-> TRUE, panic |-> FALSE]
                 ELSE IF c1[index + 1].kind.adjacent_mines = 0
                 THEN reveal_neighbors(c1, dims, get_neighbors(coords, dims), 1)
                 ELSE [cells |-> c1, hit |-> FALSE, panic |-> FALSE]

\* Board::reveal cascading from every Empty cell, whatever its count.
Board_reveal_cascade_always(cs, dims, coords) ==
    LET index == to_index(coords, dims)
    IN  IF index >= Len(cs) THEN [cells |-> cs, hit |-> FALSE, panic |-> TRUE]
        ELSE IF cs[index + 1].state = "Flagged"
                \/ cs[index + 1].state = "Revealed"
        THEN [cells |-> cs, hit |-> FALSE, panic |-> FALSE]
        ELSE LET c1 == [cs EXCEPT ![index + 1].state = "Revealed"]
             IN  IF c1[index + 1].kind = Mine
                 THEN [cells |-> c1, hit |-> TRUE, panic |-> FALSE]
                 ELSE reveal_neighbors(c1, dims, get_neighbors(coords, dims), 1)

\* Board::reveal returning false from the Mine arm.
Board_reveal_mine_unreported(cs, dims, coords) ==
    LET index == to_index(coords, dims)
    IN  IF index >= Len(cs) THEN [cells |-> cs, hit |-> FALSE, panic |-> TRUE]
        ELSE IF cs[index + 1].state = "Flagged"
                \/ cs[index + 1].state = "Revealed"
        THEN [cells |-> cs, hit |-> FALSE, panic |-> FALSE]
        ELSE LET c1 == [cs EXCEPT ![index + 1].state = "Revealed"]
             IN  IF c1[index + 1].kind = Mine
                 THEN [cells |-> c1, hit |-> FALSE, panic |-> FALSE]
                 ELSE IF c1[index + 1].kind.adjacent_mines = 0
                 THEN reveal_neighbors(c1, dims, get_neighbors(coords, dims), 1)
                 ELSE [cells |-> c1, hit |-> FALSE, panic |-> FALSE]

Board_reveal(cs, dims, coords) ==
    LET index == to_index(coords, dims)
    IN  IF index >= Len(cs) THEN [cells |-> cs, hit |-> FALSE, panic |-> TRUE]
        ELSE IF cs[index + 1].state = "Flagged"
                \/ cs[index + 1].state = "Revealed"
        THEN [cells |-> cs, hit |-> FALSE, panic |-> FALSE]
        ELSE LET c1 == [cs EXCEPT ![index + 1].state = "Revealed"]
             IN  IF c1[index + 1].kind = Mine
                 THEN [cells |-> c1, hit |-> TRUE, panic |-> FALSE]
                 ELSE IF c1[index + 1].kind.adjacent_mines = 0
                 THEN reveal_neighbors(c1, dims, get_neighbors(coords, dims), 1)
                 ELSE [cells |-> c1, hit |-> FALSE, panic |-> FALSE]

\* The neighbor loop of Board::reveal leaving after its first iteration.
reveal_neighbors_first_only(cs, dims, neighbors, k) ==
    IF k > Len(neighbors) THEN [cells |-> cs, hit |-> FALSE, panic |-> FALSE]
    ELSE LET r == Board_reveal(cs, dims, neighbors[k])
         IN  [cells |-> r.cells, hit |-> FALSE, panic |-> r.panic]

reveal_neighbors(cs, dims, neighbors, k) ==
    IF k > Len(neighbors) THEN [cells |-> cs, hit |-> FALSE, panic |-> FALSE]
    ELSE LET r == Board_reveal(cs, dims, neighbors[k])
         IN  IF r.panic THEN [cells |-> r.cells, hit |-> FALSE, panic |-> TRUE]
             ELSE reveal_neighbors(r.cells, dims, neighbors, k + 1)

-----------------------------------------------------------------------------
(* game.rs                                                                 *)

\* Game::is_won asking for every cell, mines included, to be Revealed.
is_won_all_revealed(cs) ==
    \A k \in 1..Len(cs) : cs[k].state = "Revealed"

\* Game::is_won
is_won(cs) ==
    \A k \in 1..Len(cs) :
        (cs[k].kind # Mine) = (cs[k].state = "Revealed")

\* Grid shapes of the game specification: 1..MaxDim positive extents.
Shapes ==
    UNION {{d \in [1..n -> 1..MaxExtent] : product(d) <= MaxCells} :
           n \in 1..MaxDim}

\* Game::new(dimensions, num_mines) with num_mines <= total cells.
Init ==
    \E dims \in Shapes, n \in 0..MaxMines, overflow_checks \in BOOLEAN :
        /\ n <= product(dims)
        /\ \E chosen \in choose_multiple(product(dims), n) :
              LET b == Board_new(dims, n, chosen, overflow_checks)
              IN  /\ ~b.panic
                  /\ dimensions = b.dimensions
                  /\ cells = b.cells
                  /\ num_mines = b.num_mines
                  /\ state = "InProgress"
                  /\ call = [op |-> "new", coords |-> <<>>,
                             hit |-> FALSE, panic |-> FALSE]

\* Game::toggle_flag with the `state == InProgress` test left out.
Game_toggle_flag_unguarded(coords) ==
    /\ cells' = Board_toggle_flag(cells, dimensions, coords)
    /\ call' = [op |-> "toggle_flag", coords |-> coords,
                hit |-> FALSE, panic |-> FALSE]
    /\ UNCHANGED <<dimensions, num_mines, state>>

\* Game::toggle_flag(coords)
Game_toggle_flag(coords) ==
    /\ cells' = IF state = "InProgress"
                THEN Board_toggle_flag(cells, dimensions, coords)
                ELSE cells
    /\ call' = [op |-> "toggle_flag", coords |-> coords,
                hit |-> FALSE, panic |-> FALSE]
    /\ UNCHANGED <<dimensions, num_mines, state>>

\* Game::reveal without the `else if self.is_won()` arm.
Game_reveal_no_win_test(coords) ==
    LET r == Board_reveal(cells, dimensions, coords)
    IN  /\ IF state = "InProgress"
           THEN /\ cells' = r.cells
                /\ state' = IF r.panic THEN state
                            ELSE IF r.hit THEN "Lost"
                            ELSE state
                /\ call' = [op |-> "reveal", coords |-> coords,
                            hit |-> r.hit, panic |-> r.panic]
           ELSE /\ UNCHANGED <<cells, state>>
                /\ call' = [op |-> "reveal", coords |-> coords,
                            hit |-> FALSE, panic |-> FALSE]
        /\ UNCHANGED <<dimensions, num_mines>>

\* Game::reveal(coords); a panic of Board::reveal leaves the game as it was.
Game_reveal(coords) ==
    LET r == Board_reveal(cells, dimensions, coords)
    IN  /\ IF state = "InProgress"
           THEN /\ cells' = r.cells
                /\ state' = IF r.panic THEN state
                            ELSE IF r.hit THEN "Lost"
                            ELSE IF is_won(r.cells) THEN "Won"
                            ELSE state
                /\ call' = [op |-> "reveal", coords |-> coords,
                            hit |-> r.hit, panic |-> r.panic]
           ELSE /\ UNCHANGED <<cells, state>>
                /\ call' = [op |-> "reveal", coords |-> coords,
                            hit |-> FALSE, panic |-> FALSE]
        /\ UNCHANGED <<dimensions, num_mines>>

ToggleFlag == \E coords \in Coords(dimensions) : Game_toggle_flag(coords)

Reveal == \E coords \in Coords(dimensions) : Game_reveal(coords)

Next == ToggleFlag \/ Reveal

\* A game played by a caller that keeps the precondition of the coordinate
\* mapper: every coordinate it passes is valid.
Spec == Init /\ [][Next]_vars

ToggleFlagInvalid ==
    \E coords \in InvalidCoords(dimensions) : Game_toggle_flag(coords)

RevealInvalid ==
    \E coords \in InvalidCoords(dimensions) : Game_reveal(coords)

NextAny == ToggleFlag \/ Reveal \/ ToggleFlagInvalid \/ RevealInvalid

\* A game played by a caller that also passes out-of-range coordinates.
SpecAny == Init /\ [][NextAny]_vars

\* Every `Vec<usize>` that Game::new takes as dimensions: also no axis at
\* all, and axes of extent 0.
AnyShapes ==
    UNION {{d \in [1..n -> 0..MaxExtent] : product(d) <= MaxCells} :
           n \in 0..MaxDim}

\* Game::new(dimensions, num_mines) for any arguments: neither Game::new nor
\* Board::new nor place_mines tests them.
InitNew ==
    \E dims \in AnyShapes, n \in 0..MaxMines, overflow_checks \in BOOLEAN :
        \E chosen \in choose_multiple(product(dims), n) :
            LET b == Board_new(dims, n, chosen, overflow_checks)
            IN  /\ ~b.panic
                /\ dimensions = b.dimensions
                /\ cells = b.cells
                /\ num_mines = b.num_mines
                /\ state = "InProgress"
                /\ call = [op |-> "new", coords |-> <<>>,
                           hit |-> FALSE, panic |-> FALSE]

\* A game constructed from any arguments and then played.
SpecNew == InitNew /\ [][NextAny]_vars

-----------------------------------------------------------------------------
(* The coordinate mapper and calculate_adjacent_mines as pure functions,   *)
(* driven the way the unit tests of coordinates.rs and board.rs drive      *)
(* them: a shape, a call of one function, and for the adjacent-mine count  *)
(* a hand-built board (mines set cell by cell, then the calculation).      *)

\* Every shape of 1..FnMaxDim axes with extents 1..FnMaxExtent and at most
\* FnMaxCells cells.
FnShapes ==
    UNION {{d \in [1..n -> 1..FnMaxExtent] : product(d) <= FnMaxCells} :
           n \in 1..FnMaxDim}

\* A six-dimensional board on which one cell has 323 neighbors: cell 40,
\* coordinate [1,1,1,1,0,0], is adjacent to every other cell.
WideShape == <<3, 3, 3, 3, 2, 2>>

\* Hand-built mine layouts: the two corners of the flat vector, as in
\* test_calculate_adjacent_mines_2d (cells 0 and 8 of [3,3]) and
\* test_flood_fill_reveal (cell 0); on WideShape, mines in every cell from
\* 41 or from 68 on, which leaves cell 40 with 283 or 256 mine neighbors.
FnPlacements(dims) ==
    IF dims = WideShape
    THEN {41..(product(dims) - 1), 68..(product(dims) - 1)}
    ELSE {{}, {0}, {product(dims) - 1}, {0, product(dims) - 1}}

InitFn ==
    \E dims \in FnShapes \cup {WideShape} :
        /\ dimensions = dims
        /\ cells = [k \in 1..product(dims) |-> Cell_new]
        /\ num_mines = 0
        /\ state = "InProgress"
        /\ call = [op |-> "init"]

FnToIndex ==
    /\ call.op = "init"
    /\ \E coords \in Coords(dimensions) :
          call' = [op |-> "to_index", coords |-> coords,
                   index |-> to_index(coords, dimensions)]
    /\ UNCHANGED <<dimensions, cells, num_mines, state>>

FnToCoords ==
    /\ call.op = "init"
    /\ \E index \in 0..(product(dimensions) - 1) :
          call' = [op |-> "to_coords", index |-> index,
                   coords |-> to_coords(index, dimensions)]
    /\ UNCHANGED <<dimensions, cells, num_mines, state>>

FnGetNeighbors ==
    /\ call.op = "init"
    /\ \E coords \in Coords(dimensions) :
          call' = [op |-> "get_neighbors", coords |-> coords,
                   neighbors |-> get_neighbors(coords, dimensions)]
    /\ UNCHANGED <<dimensions, cells, num_mines, state>>

\* `cells[i].kind = CellKind::Mine` for each i of a layout.
FnSetMines ==
    /\ call.op = "init"
    /\ \E chosen \in FnPlacements(dimensions) :
          /\ cells' = place_mines(cells, chosen)
          /\ num_mines' = Cardinality(chosen)
    /\ call' = [op |-> "set_mines"]
    /\ UNCHANGED <<dimensions, state>>

\* board.calculate_adjacent_mines(), built with or without overflow checks.
FnCalculate ==
    /\ call.op = "set_mines"
    /\ \E overflow_checks \in BOOLEAN :
          LET r == calculate_adjacent_mines(cells, dimensions, overflow_checks)
          IN  /\ cells' = r.cells
              /\ call' = [op |-> "calculate_adjacent_mines",
                          panic |-> r.panic]
    /\ UNCHANGED <<dimensions, num_mines, state>>

NextFn == FnToIndex \/ FnToCoords \/ FnGetNeighbors \/ FnSetMines \/ FnCalculate

SpecFn == InitFn /\ [][NextFn]_vars

-----------------------------------------------------------------------------
(* Board::reveal as the machine runs it: a stack of the invocations that   *)
(* are inside their neighbor loop, one step per invocation made.  The      *)
(* Board is driven directly, as the unit tests of board.rs drive it.       *)

\* An invocation on `coords` about to run iteration k (1-based) of its loop
\* over `neighbors`.
Looping(coords, neighbors, k) ==
    [coords |-> coords, neighbors |-> neighbors, k |-> k]

\* An invocation with the test for a Revealed target left out.
reveal_entry_unguarded(cs, dims, coords) ==
    LET index == to_index(coords, dims)
    IN  IF index >= Len(cs)
        THEN [cells |-> cs, frames |-> <<>>, ret |-> FALSE, panic |-> TRUE]
        ELSE IF cs[index + 1].state = "Flagged"
        THEN [cells |-> cs, frames |-> <<>>, ret |-> FALSE, panic |-> FALSE]
        ELSE LET c1 == [cs EXCEPT ![index + 1].state = "Revealed"]
             IN  IF c1[index + 1].kind = Mine
                 THEN [cells |-> c1, frames |-> <<>>, ret |-> TRUE,
                       panic |-> FALSE]
                 ELSE IF c1[index + 1].kind.adjacent_mines = 0
                 THEN [cells |-> c1,
                       frames |-> <<Looping(coords,
                                            get_neighbors(coords, dims), 1)>>,
                       ret |-> FALSE, panic |-> FALSE]
                 ELSE [cells |-> c1, frames |-> <<>>, ret |-> FALSE,
                       panic |-> FALSE]

\* One invocation of Board::reveal, from its call to its return (frames
\* empty, ret the value returned) or to the start of its neighbor loop
\* (frames holds the invocation).  An index past the end panics.
reveal_entry(cs, dims, coords) ==
    LET index == to_index(coords, dims)
    IN  IF index >= Len(cs)
        THEN [cells |-> cs, frames |-> <<>>, ret |-> FALSE, panic |-> TRUE]
        ELSE IF cs[index + 1].state = "Flagged"
                \/ cs[index + 1].state = "Revealed"
        THEN [cells |-> cs, frames |-> <<>>, ret |-> FALSE, panic |-> FALSE]
        ELSE LET c1 == [cs EXCEPT ![index + 1].state = "Revealed"]
             IN  IF c1[index + 1].kind = Mine
                 THEN [cells |-> c1, frames |-> <<>>, ret |-> TRUE,
                       panic |-> FALSE]
                 ELSE IF c1[index + 1].kind.adjacent_mines = 0
                 THEN [cells |-> c1,
                       frames |-> <<Looping(coords,
                                            get_neighbors(coords, dims), 1)>>,
                       ret |-> FALSE, panic |-> FALSE]
                 ELSE [cells |-> c1, frames |-> <<>>, ret |-> FALSE,
                       panic |-> FALSE]

\* One step of the innermost invocation: the next iteration of
\* `for neighbor_coords in neighbors`, which makes the recursive call and
\* drops its return value, or the `false` after the loop.  `called` tells
\* whether the step made a call.
reveal_iteration(cs, dims, stack) ==
    LET top == stack[Len(stack)]
    IN  IF top.k > Len(top.neighbors)
        THEN [cells |-> cs, stack |-> SubSeq(stack, 1, Len(stack) - 1),
              called |-> FALSE, panic |-> FALSE]
        ELSE LET r == reveal_entry(cs, dims, top.neighbors[top.k])
             IN  [cells |-> r.cells,
                  stack |-> IF r.panic THEN <<>>
                            ELSE [stack EXCEPT ![Len(stack)] =
                                     Looping(top.coords, top.neighbors,
                                             top.k + 1)] \o r.frames,
                  called |-> TRUE, panic |-> r.panic]

Max(a, b) == IF a > b THEN a ELSE b

\* No call of Board::reveal is running.
Idle == call.op # "running"

\* Board::new, as in Init; `call` records the running call: the stack of
\* its invocations, the writes it has made, the deepest nesting of a
\* recursive invocation it has made (the outer invocation is at depth 0) and
\* the cells it started from.
InitReveal ==
    \E dims \in Shapes, n \in 0..MaxMines, overflow_checks \in BOOLEAN :
        /\ n <= product(dims)
        /\ \E chosen \in choose_multiple(product(dims), n) :
              LET b == Board_new(dims, n, chosen, overflow_checks)
              IN  /\ ~b.panic
                  /\ dimensions = b.dimensions
                  /\ cells = b.cells
                  /\ num_mines = b.num_mines
                  /\ state = "InProgress"
                  /\ call = [op |-> "new", coords |-> <<>>, stack |-> <<>>,
                             writes |-> 0, depth |-> 0, start |-> <<>>,
                             hit |-> FALSE]

\* board.toggle_flag(coords)
BoardToggleFlag ==
    /\ Idle
    /\ \E coords \in Coords(dimensions) :
          cells' = Board_toggle_flag(cells, dimensions, coords)
    /\ call' = [op |-> "toggle_flag", coords |-> <<>>, stack |-> <<>>,
                writes |-> 0, depth |-> 0, start |-> <<>>, hit |-> FALSE]
    /\ UNCHANGED <<dimensions, num_mines, state>>

\* board.reveal(coords): the outer invocation, up to its return or to the
\* start of its neighbor loop.
BoardRevealCall ==
    /\ Idle
    /\ \E coords \in Coords(dimensions) :
          LET r == reveal_entry(cells, dimensions, coords)
          IN  /\ cells' = r.cells
              /\ call' = [op |-> IF r.panic THEN "panicked"
                                 ELSE IF r.frames = <<>> THEN "returned"
                                 ELSE "running",
                          coords |-> coords, stack |-> r.frames,
                          writes |-> IF r.cells # cells THEN 1 ELSE 0,
                          depth |-> 0, start |-> cells, hit |-> r.ret]
    /\ UNCHANGED <<dimensions, num_mines, state>>

\* The running call takes its next step; the call returns when its outer
\* invocation leaves the loop.
BoardRevealStep ==
    /\ call.op = "running"
    /\ \E r \in {reveal_iteration(cells, dimensions, call.stack)} :
           /\ cells' = r.cells
           /\ call' = [call EXCEPT
                  !.op = IF r.panic THEN "panicked"
                         ELSE IF r.stack = <<>> THEN "returned"
                         ELSE "running",
                  !.stack = r.stack,
                  !.writes = IF r.cells # cells THEN @ + 1 ELSE @,
                  !.depth = IF r.called THEN Max(@, Len(call.stack)) ELSE @]
    /\ UNCHANGED <<dimensions, num_mines, state>>

NextReveal == BoardToggleFlag \/ BoardRevealCall \/ BoardRevealStep

\* A call that has started keeps running: the machine takes its steps.
SpecReveal == InitReveal /\ [][NextReveal]_vars /\ WF_vars(BoardRevealStep)

-----------------------------------------------------------------------------
(* Vocabulary of the properties, from spec.md (Data model, Board, Game).   *)

\* stride[j]: the product of the extents of the axes before axis j.
RECURSIVE Stride(_, _)
Stride(dims, j) == IF j = 1 THEN 1 ELSE Stride(dims, j - 1) * dims[j - 1]

\* Linear index of a coordinate: the sum of coord[j] * stride[j].
RECURSIVE SlotUpTo(_, _, _)
SlotUpTo(c, dims, j) ==
    IF j = 0 THEN 0 ELSE SlotUpTo(c, dims, j - 1) + c[j] * Stride(dims, j)

Slot(c, dims) == SlotUpTo(c, dims, Len(dims))

\* The cell of coordinate c in the flat vector cs.
At(cs, c) == cs[Slot(c, dimensions) + 1]

Abs(x) == IF x < 0 THEN -x ELSE x

\* The N-dimensional Moore neighborhood of c, clipped to the grid.
Moore(c, dims) ==
    {d \in Coords(dims) :
        /\ d # c
        /\ \A j \in 1..Len(dims) : Abs(d[j] - c[j]) <= 1}

IsMine(cell) == cell.kind = Mine
IsZero(cell) == cell.kind = Empty(0)

RevealedSet(cs) == {c \in Coords(dimensions) : At(cs, c).state = "Revealed"}
FlaggedSet(cs) == {c \in Coords(dimensions) : At(cs, c).state = "Flagged"}
MineSet(cs) == {c \in Coords(dimensions) : IsMine(At(cs, c))}

\* The win condition: content is Mine exactly where the cell is not Revealed.
BoardCleared(cs) ==
    \A c \in Coords(dimensions) :
        IsMine(At(cs, c)) <=> (At(cs, c).state # "Revealed")

\* The step is a call op(c) on a valid coordinate c, made while InProgress.
Played(op, c) ==
    /\ state = "InProgress"
    /\ call'.op = op
    /\ call'.coords = c
    /\ c \in Coords(dimensions)

\* The last call was op on a valid coordinate.
LastCall(op) == call.op = op /\ call.coords \in Coords(dimensions)

-----------------------------------------------------------------------------
(* Properties of the Game specifications Spec and SpecAny.                 *)

\* C1: once the state is Won or Lost it is terminal: every later reveal or
\* toggle_flag call, with a valid or an out-of-range coordinate, leaves the GameState and every
\* cell (visibility and content) as they are; the only transitions of the
\* GameState are InProgress -> Won and InProgress -> Lost.
TerminalStates ==
    [][/\ state \in {"Won", "Lost"} => (state' = state /\ cells' = cells)
       /\ state' # state => (state = "InProgress" /\ state' \in {"Won", "Lost"})
      ]_vars

\* A toggle_flag call on a Hidden cell was made after the game was lost,
\* at a time when the board also held a flag.
TerminalStatesWitness ==
    /\ state = "Lost"
    /\ LastCall("toggle_flag")
    /\ At(cells, call.coords).state = "Hidden"
    /\ FlaggedSet(cells) # {}

\* C2: while InProgress, reveal(c) on a valid coordinate sets the state to
\* Lost iff Board.reveal reports a mine hit (c is a Hidden mine cell);
\* otherwise to Won iff the win condition holds on the board after the
\* reveal; otherwise the state remains InProgress.
RevealOutcome ==
    [][\A c \in Coords(dimensions) :
          Played("reveal", c) =>
              LET mineHit == At(cells, c).state = "Hidden" /\ IsMine(At(cells, c))
              IN  /\ call'.hit = mineHit
                  /\ state' = IF mineHit THEN "Lost"
                              ELSE IF BoardCleared(cells') THEN "Won"
                              ELSE "InProgress"
      ]_vars

\* A reveal that hit no mine completed a board that holds mines.
RevealOutcomeWitness ==
    /\ state = "Won"
    /\ LastCall("reveal")
    /\ MineSet(cells) # {}
    /\ Cardinality(RevealedSet(cells)) > 1

\* The cells reachable from the cells of S by neighbor paths on which every
\* cell is Hidden in cs and every cell but the last is Empty with count 0.
RECURSIVE HiddenReach(_, _)
HiddenReach(cs, S) ==
    LET T == S \cup {d \in Coords(dimensions) :
                        /\ At(cs, d).state = "Hidden"
                        /\ \E x \in S : IsZero(At(cs, x))
                                        /\ d \in Moore(x, dimensions)}
    IN  IF T = S THEN S ELSE HiddenReach(cs, T)

\* The contiguous zero-region of the cells of S: the zero-count cells joined
\* to S by neighbor paths of zero-count cells, whatever their visibility.
RECURSIVE ZeroRegion(_, _)
ZeroRegion(cs, S) ==
    LET T == S \cup {d \in Coords(dimensions) :
                        /\ IsZero(At(cs, d))
                        /\ \E x \in S : d \in Moore(x, dimensions)}
    IN  IF T = S THEN S ELSE ZeroRegion(cs, T)

\* A zero-region together with the cells that border it.
WithBorder(R) == R \cup UNION {Moore(x, dimensions) : x \in R}

\* The Revealed cells after reveal(c) on a Hidden non-mine cell are the cells
\* Revealed before plus the cells reachable from c by Hidden paths through
\* zero-count cells.
FloodFillResult(c) ==
    (At(cells, c).state = "Hidden" /\ ~IsMine(At(cells, c))) =>
        RevealedSet(cells') = RevealedSet(cells) \cup HiddenReach(cells, {c})

\* No cell is Flagged.
NoFlags == FlaggedSet(cells) = {}

\* Every Revealed zero-count cell has all its neighbors Revealed.
ZeroCellsOpened ==
    \A x \in RevealedSet(cells) :
        IsZero(At(cells, x)) => Moore(x, dimensions) \subseteq RevealedSet(cells)

\* reveal(c) on a Hidden zero-count cell reveals the whole zero-region of c
\* and its border.
RegionRevealed(c) ==
    (At(cells, c).state = "Hidden" /\ IsZero(At(cells, c))) =>
        WithBorder(ZeroRegion(cells, {c})) \subseteq RevealedSet(cells')

\* C3 as stated: the flood-fill result, and in particular on a board with no
\* flags revealing a zero-count cell reveals its whole contiguous
\* zero-region together with the bordering numbered cells.
FloodFillAsStated ==
    [][\A c \in Coords(dimensions) :
          Played("reveal", c) =>
              /\ FloodFillResult(c)
              /\ NoFlags => RegionRevealed(c)
      ]_vars

\* C3, amended: the flood-fill result; and on a board with no flags on which
\* every already Revealed zero-count cell has all its neighbors Revealed,
\* revealing a zero-count cell reveals its whole contiguous zero-region
\* together with the bordering numbered cells.
FloodFill ==
    [][\A c \in Coords(dimensions) :
          Played("reveal", c) =>
              /\ FloodFillResult(c)
              /\ (NoFlags /\ ZeroCellsOpened) => RegionRevealed(c)
      ]_vars

\* A reveal of a zero-count cell on a board with a mine left the target and
\* a numbered neighbor of it Revealed.
FloodFillWitness ==
    /\ LastCall("reveal")
    /\ MineSet(cells) # {}
    /\ IsZero(At(cells, call.coords))
    /\ At(cells, call.coords).state = "Revealed"
    /\ \E d \in Moore(call.coords, dimensions) :
          /\ At(cells, d).state = "Revealed"
          /\ ~IsMine(At(cells, d))
          /\ ~IsZero(At(cells, d))

\* C7 as stated: on a board with zero mines, revealing any one (Hidden) cell
\* transitions the state to Won.
ZeroMinesWinAsStated ==
    [][\A c \in Coords(dimensions) :
          (/\ Played("reveal", c)
           /\ MineSet(cells) = {}
           /\ At(cells, c).state = "Hidden") => state' = "Won"
      ]_vars

\* C7, amended: on a board with zero mines on which every cell is still
\* Hidden (none Flagged, none Revealed), revealing any one cell transitions
\* the state to Won.
ZeroMinesWin ==
    [][\A c \in Coords(dimensions) :
          (/\ Played("reveal", c)
           /\ MineSet(cells) = {}
           /\ \A d \in Coords(dimensions) : At(cells, d).state = "Hidden")
          => state' = "Won"
      ]_vars

\* A reveal won a game on a mine-free board of four cells.
ZeroMinesWinWitness ==
    /\ state = "Won"
    /\ LastCall("reveal")
    /\ MineSet(cells) = {}
    /\ Cardinality(RevealedSet(cells)) >= 4

\* C8: Board.reveal on a Flagged cell returns false and changes no cell; a
\* reveal, directly or through its cascade, leaves every Flagged cell as it
\* is; and a Flagged cell stops being Flagged only through toggle_flag on
\* that cell, which makes it Hidden (so it is Revealed only after that).
FlagProtects ==
    [][/\ \A c \in Coords(dimensions) :
            Played("reveal", c) =>
                /\ At(cells, c).state = "Flagged" =>
                       (~call'.hit /\ ~call'.panic /\ cells' = cells)
                /\ \A d \in FlaggedSet(cells) : At(cells', d) = At(cells, d)
       /\ \A d \in FlaggedSet(cells) :
            At(cells', d).state # "Flagged" =>
                /\ call'.op = "toggle_flag"
                /\ call'.coords = d
                /\ At(cells', d).state = "Hidden"
      ]_vars

\* A reveal opened a zero-count cell next to a Flagged cell, which stayed
\* Flagged.
FlagProtectsWitness ==
    /\ LastCall("reveal")
    /\ state = "InProgress"
    /\ IsZero(At(cells, call.coords))
    /\ At(cells, call.coords).state = "Revealed"
    /\ \E d \in Moore(call.coords, dimensions) : At(cells, d).state = "Flagged"

\* Hidden <-> Flagged, Revealed stays.
Flip(visibility) ==
    CASE visibility = "Hidden" -> "Flagged"
      [] visibility = "Flagged" -> "Hidden"
      [] visibility = "Revealed" -> "Revealed"

\* C9: toggle_flag(c) on a valid coordinate changes only the visibility of
\* cell c (Hidden -> Flagged, Flagged -> Hidden, Revealed stays): no other
\* cell, no content and not the GameState change, and a second
\* toggle_flag(c) gives back the board as it was.
ToggleFlagFrame ==
    [][\A c \in Coords(dimensions) :
          Played("toggle_flag", c) =>
              /\ cells' = [cells EXCEPT ![Slot(c, dimensions) + 1].state = Flip(@)]
              /\ state' = state
              /\ dimensions' = dimensions
              /\ num_mines' = num_mines
              /\ Board_toggle_flag(cells', dimensions, c) = cells
      ]_vars

\* A toggle_flag flagged a cell of a board that has a Revealed cell.
ToggleFlagFrameWitness ==
    /\ LastCall("toggle_flag")
    /\ state = "InProgress"
    /\ At(cells, call.coords).state = "Flagged"
    /\ RevealedSet(cells) # {}

\* The cells whose content is Mine, by position in the flat vector.
MineSlots(cs) == {k \in 1..Len(cs) : cs[k].kind = Mine}

\* C10: the board has product(shape) cells, exactly num_mines of them with
\* Mine content, and no reveal or toggle_flag call changes the content of a
\* cell, the shape or num_mines.
ContentFixed ==
    /\ [](/\ Len(cells) = product(dimensions)
          /\ Cardinality(MineSlots(cells)) = num_mines)
    /\ [][/\ \A k \in 1..Len(cells) : cells'[k].kind = cells[k].kind
          /\ Len(cells') = Len(cells)
          /\ dimensions' = dimensions
          /\ num_mines' = num_mines
         ]_vars

\* A board built with two mines, after a flag was set and a cell revealed.
ContentFixedWitness ==
    /\ num_mines = 2
    /\ Cardinality(MineSlots(cells)) = 2
    /\ FlaggedSet(cells) # {}
    /\ RevealedSet(cells) # {}

-----------------------------------------------------------------------------
(* Properties of the pure-function specification SpecFn.                   *)

\* The number of mines among the Moore neighbors of c.
MineNeighbors(cs, c) ==
    Cardinality({d \in Moore(c, dimensions) : IsMine(At(cs, d))})

\* C4: after calculate_adjacent_mines, on any shape and any mine placement,
\* every non-mine cell stores the number of its in-bounds Moore neighbors
\* whose content is Mine, and every mine cell is still a mine.
AdjacentCounts ==
    [][(call'.op = "calculate_adjacent_mines" /\ ~call'.panic) =>
          \A c \in Coords(dimensions) :
              At(cells', c).kind =
                  IF IsMine(At(cells, c)) THEN Mine
                  ELSE Empty(MineNeighbors(cells, c))
      ]_vars

\* c has a neighbor on both sides along every axis.
Interior(c, dims) ==
    \A j \in 1..Len(dims) : 0 < c[j] /\ c[j] < dims[j] - 1

\* The number of axes on which c lies on the boundary of the grid.
BoundaryAxes(c, dims) ==
    Cardinality({j \in 1..Len(dims) : c[j] = 0 \/ c[j] = dims[j] - 1})

\* C19: the adjacent-mine count always fits its storage: for every shape
\* and mine placement, calculate_adjacent_mines finishes without overflow of
\* the 8-bit adjacent_mines field, no cell has more mine neighbors than the
\* field holds, and a cell with at least one mine neighbor never stores 0.
CountFitsU8 ==
    call.op = "calculate_adjacent_mines" =>
        /\ ~call.panic
        /\ \A c \in Coords(dimensions) :
              ~IsMine(At(cells, c)) =>
                  /\ MineNeighbors(cells, c) < U8
                  /\ MineNeighbors(cells, c) >= 1 =>
                         At(cells, c).kind.adjacent_mines # 0

IndexRoundTrip ==
    /\ call.op = "to_index" =>
          /\ call.index \in 0..(product(dimensions) - 1)
          /\ to_coords(call.index, dimensions) = call.coords
    /\ call.op = "to_coords" =>
          /\ call.coords \in Coords(dimensions)
          /\ to_index(call.coords, dimensions) = call.index

\* to_coords decoded the last index of a [2,3,3] grid.
IndexRoundTripWitness ==
    /\ call.op = "to_coords"
    /\ dimensions = <<2, 3, 3>>
    /\ call.index = 17
    /\ call.coords = <<1, 2, 2>>

-----------------------------------------------------------------------------
(* Properties of construction, specification SpecNew.                      *)

\* C11: construction with invalid parameters (num_mines greater than the
\* number of cells, a shape without axes, an axis of extent 0) yields no
\* Board or Game: every constructed board has at least one axis, only
\* positive extents, at least one cell, and a num_mines field equal to its
\* number of Mine cells.
ConstructionValidated ==
    /\ Len(dimensions) > 0
    /\ \A j \in 1..Len(dimensions) : dimensions[j] > 0
    /\ Len(cells) > 0
    /\ num_mines = Cardinality(MineSlots(cells))
    /\ num_mines <= product(dimensions)

-----------------------------------------------------------------------------
(* Properties of calls with out-of-range coordinates, specification        *)
(* SpecAny.                                                                *)

\* C12: no silent wraparound: a toggle_flag or reveal called with a
\* coordinate that is not valid for the shape does not map to a cell of the
\* board (to_index yields no index below the number of cells) and changes no
\* cell: it fails or does nothing.
NoSilentWraparound ==
    [][(/\ call'.op \in {"toggle_flag", "reveal"}
        /\ call'.coords \notin Coords(dimensions)) =>
          /\ to_index(call'.coords, dimensions) >= Len(cells)
          /\ cells' = cells
      ]_vars

-----------------------------------------------------------------------------
(* Further properties of the Game specification Spec.                      *)

\* C13: in every reachable InProgress state, Game.reveal on a cell that is
\* Flagged or already Revealed is a complete no-op: no cell changes and the
\* GameState stays InProgress.
RevealRedundant ==
    [][\A c \in Coords(dimensions) :
          (/\ Played("reveal", c)
           /\ At(cells, c).state \in {"Flagged", "Revealed"}) =>
              /\ cells' = cells
              /\ state' = "InProgress"
      ]_vars

\* Every non-mine cell stores the number of its mine neighbors.
CountsCorrect ==
    \A c \in Coords(dimensions) :
        IsMine(At(cells, c)) \/ At(cells, c).kind = Empty(MineNeighbors(cells, c))

RevealedMines(cs) == MineSet(cs) \cap RevealedSet(cs)

\* C14: a cascade never reveals a mine: on a board with correct adjacent
\* counts, at most one mine cell is Revealed in any reachable state, a mine
\* cell is Revealed iff the GameState is Lost, and a mine becomes Revealed
\* only as the target of a Game.reveal call that reports the hit and turns
\* the state from InProgress to Lost.
MineOnlyByDirectHit ==
    /\ [](CountsCorrect =>
             /\ Cardinality(RevealedMines(cells)) <= 1
             /\ (RevealedMines(cells) # {}) <=> (state = "Lost"))
    /\ [][CountsCorrect =>
             \A c \in RevealedMines(cells') \ RevealedMines(cells) :
                 /\ Played("reveal", c)
                 /\ call'.hit
                 /\ state' = "Lost"
         ]_vars

\* The game was lost by revealing a mine after a zero-count cell had been
\* revealed, its cascade stopped by a flag on the numbered cell between the
\* two.
MineOnlyByDirectHitWitness ==
    /\ state = "Lost"
    /\ LastCall("reveal")
    /\ call.hit
    /\ RevealedMines(cells) = {call.coords}
    /\ \E z \in RevealedSet(cells), d \in FlaggedSet(cells) :
          /\ IsZero(At(cells, z))
          /\ d \in Moore(z, dimensions)
          /\ call.coords \in Moore(d, dimensions)

\* C15: the GameState tracks the win condition: on a board with at least
\* one non-mine cell, in every reachable state the state is Won iff every
\* non-mine cell is Revealed and no mine cell is Revealed (so the game is
\* never InProgress while the win condition holds), and no toggle_flag call
\* makes or breaks the win condition.
WinTracked ==
    /\ []((MineSet(cells) # Coords(dimensions)) =>
             ((state = "Won") <=> BoardCleared(cells)))
    /\ [][(/\ MineSet(cells) # Coords(dimensions)
            /\ call'.op = "toggle_flag") =>
               (BoardCleared(cells') <=> BoardCleared(cells))
         ]_vars

\* A game was won by a reveal on a board with a mine, every mine flagged.
WinTrackedWitness ==
    /\ state = "Won"
    /\ BoardCleared(cells)
    /\ LastCall("reveal")
    /\ MineSet(cells) # {}
    /\ MineSet(cells) \subseteq FlaggedSet(cells)

\* C17: Board.reveal on a Hidden cell that is a Mine, or Empty with a
\* non-zero adjacent-mine count, changes exactly that one cell to Revealed
\* and no other cell; it returns true for the mine and false for the
\* numbered cell.
RevealSingleCell ==
    [][\A c \in Coords(dimensions) :
          (/\ Played("reveal", c)
           /\ At(cells, c).state = "Hidden"
           /\ ~IsZero(At(cells, c))) =>
              /\ \A d \in Coords(dimensions) :
                    At(cells', d) =
                        IF d = c THEN [At(cells, c) EXCEPT !.state = "Revealed"]
                        ELSE At(cells, d)
              /\ call'.hit = IsMine(At(cells, c))
      ]_vars

\* A reveal of a numbered cell returned false and the game goes on: the
\* cell is the only Revealed one, next to a Hidden cell without a mine.
RevealSingleCellWitness ==
    /\ state = "InProgress"
    /\ LastCall("reveal")
    /\ ~call.hit
    /\ ~IsMine(At(cells, call.coords))
    /\ ~IsZero(At(cells, call.coords))
    /\ RevealedSet(cells) = {call.coords}
    /\ \E d \in Moore(call.coords, dimensions) :
          ~IsMine(At(cells, d)) /\ At(cells, d).state = "Hidden"

\* C18: revealing is irreversible: in every sequence of reveal and
\* toggle_flag calls, with valid or out-of-range coordinates, a cell that is
\* Revealed stays Revealed in every later state, so the set of Revealed
\* cells only grows.
RevealedForever ==
    [][\A k \in 1..Len(cells) :
          cells[k].state = "Revealed" => cells'[k].state = "Revealed"
      ]_vars

\* toggle_flag was called on a Revealed cell while the game was InProgress,
\* and the cell is still Revealed.
RevealedForeverWitness ==
    /\ state = "InProgress"
    /\ LastCall("toggle_flag")
    /\ At(cells, call.coords).state = "Revealed"

-----------------------------------------------------------------------------
(* Properties of the stepwise specification SpecReveal.                    *)

\* The steps of a call that has returned add up to Board_reveal.
StepsAgree ==
    call.op = "returned" =>
        LET r == Board_reveal(call.start, dimensions, call.coords)
        IN  cells = r.cells /\ call.hit = r.hit /\ ~r.panic

\* C16: every Board.reveal call terminates, also on a board without mines
\* where the cascade covers every cell: a step of a call changes at most
\* one cell and only from Hidden to Revealed, so a call makes at most one
\* write per cell; the nesting depth of the recursive invocations (those
\* below the outer call) never exceeds the number of cells; and every call
\* that has started returns.
RevealTerminates ==
    /\ [](/\ Len(call.stack) <= Len(cells)
          /\ call.depth <= Len(cells)
          /\ call.writes <= Len(cells)
          /\ call.op # "panicked")
    /\ [][call'.op # "toggle_flag" =>
             \A k \in 1..Len(cells) :
                 cells'[k] # cells[k] =>
                     /\ cells[k].state = "Hidden"
                     /\ cells'[k] = [cells[k] EXCEPT !.state = "Revealed"]
                     /\ \A j \in 1..Len(cells) : j # k => cells'[j] = cells[j]
         ]_vars
    /\ (call.op = "running") ~> (call.op = "returned")

\* A call on a four-cell board without mines has returned with every cell
\* Revealed: four writes, and recursive invocations nested four deep.
RevealTerminatesWitness ==
    /\ call.op = "returned"
    /\ Len(cells) = 4
    /\ \A k \in 1..Len(cells) :
          cells[k].kind = Empty(0) /\ cells[k].state = "Revealed"
    /\ call.writes = 4
    /\ call.depth = 4

====
